---- MODULE Spec2Model ----
(***************************************************************************)
(* Oh et al. (1992) bare-soil surface backscatter (sigma0/oh_model.py):    *)
(* the Fresnel reflectivities gammah and gammav and the composite          *)
(* sigma0_bare, executed statement by statement.                           *)
(*                                                                         *)
(* Numbers.  The code computes in IEEE doubles under numpy's rules: a      *)
(* division by zero yields an infinity or a NaN and execution goes on.     *)
(* Here a real is a record                                                 *)
(*     [k |-> "fin", n, d, p]   the number (n/d) * pi^p, in lowest terms,  *)
(*     [k |-> "inf", n = +-1]   a signed infinity,                         *)
(*     [k |-> "nan"]            not-a-number,                              *)
(*     [k |-> "off"]            a number the grid below cannot hold.       *)
(* +, -, *, / are exact on finite values and follow IEEE on inf and nan.   *)
(* cos, sin^2 and sqrt are exact where their value is rational and "off"   *)
(* elsewhere; exp and non-integer powers are tabulated on the grid and an  *)
(* integer power is given to two decimal places.  Inputs are drawn from    *)
(* the grid of arguments on which no "off" value arises.  The rounding of  *)
(* the doubles in +, -, *, /, cos, sin and sqrt is not modelled.           *)
(***************************************************************************)
EXTENDS Integers, Sequences, FiniteSets, TLC

Abs(x) == IF x < 0 THEN -x ELSE x

RECURSIVE GCD(_, _)
GCD(a, b) == IF b = 0 THEN a ELSE GCD(b, a % b)

\* (n/d) * pi^p in lowest terms, d > 0.
FinP(n, d, p) ==
    LET g == GCD(Abs(n), Abs(d))
        s == IF d < 0 THEN -1 ELSE 1
    IN  IF n = 0 THEN [k |-> "fin", n |-> 0, d |-> 1, p |-> 0]
        ELSE [k |-> "fin", n |-> s * (n \div g), d |-> s * (d \div g), p |-> p]

Fin(n, d) == FinP(n, d, 0)
Int2R(n) == Fin(n, 1)
Zero == Fin(0, 1)
One == Fin(1, 1)
Inf(s) == [k |-> "inf", n |-> s, d |-> 1, p |-> 0]
NaN == [k |-> "nan", n |-> 0, d |-> 1, p |-> 0]
Off == [k |-> "off", n |-> 0, d |-> 1, p |-> 0]
Unset == [k |-> "unset", n |-> 0, d |-> 1, p |-> 0]

\* cmath.pi
Pi == FinP(1, 1, 1)

IsFin(x) == x.k = "fin"
IsZero(x) == x.k = "fin" /\ x.n = 0
Sign(x) == IF x.n > 0 THEN 1 ELSE IF x.n < 0 THEN -1 ELSE 0
Poison(a, b) == IF a.k = "off" \/ b.k = "off" \/ a.k = "unset" \/ b.k = "unset"
                THEN Off ELSE NaN
Bad(a) == a.k \in {"off", "nan", "unset"}

Neg(a) == IF Bad(a) THEN Poison(a, a) ELSE [a EXCEPT !.n = -a.n]

Mul(a, b) ==
    IF Bad(a) \/ Bad(b) THEN Poison(a, b)
    ELSE IF a.k = "inf" \/ b.k = "inf"
         THEN IF Sign(a) * Sign(b) = 0 THEN NaN ELSE Inf(Sign(a) * Sign(b))
    ELSE LET g1 == GCD(Abs(a.n), b.d)
             g2 == GCD(Abs(b.n), a.d)
         IN  IF a.n = 0 \/ b.n = 0 THEN Zero
             ELSE FinP((a.n \div g1) * (b.n \div g2),
                       (a.d \div g2) * (b.d \div g1), a.p + b.p)

Add(a, b) ==
    IF Bad(a) \/ Bad(b) THEN Poison(a, b)
    ELSE IF a.k = "inf" /\ b.k = "inf"
         THEN IF a.n = b.n THEN a ELSE NaN
    ELSE IF a.k = "inf" THEN a
    ELSE IF b.k = "inf" THEN b
    ELSE IF a.n = 0 THEN b
    ELSE IF b.n = 0 THEN a
    ELSE IF a.p # b.p THEN Off
    ELSE LET g == GCD(a.d, b.d)
         IN  FinP(a.n * (b.d \div g) + b.n * (a.d \div g),
                  (a.d \div g) * b.d, a.p)

Sub(a, b) == Add(a, Neg(b))

Div(a, b) ==
    IF Bad(a) \/ Bad(b) THEN Poison(a, b)
    ELSE IF IsZero(b)
         THEN IF IsZero(a) THEN NaN ELSE Inf(Sign(a))
    ELSE IF b.k = "inf"
         THEN IF a.k = "inf" THEN NaN ELSE Zero
    ELSE IF a.k = "inf" THEN Inf(Sign(a) * Sign(b))
    ELSE Mul(a, FinP(b.d * Sign(b), Abs(b.n), -b.p))

\* a/b against c/d for b, d > 0, by continued fractions: -1, 0 or 1.
RECURSIVE CmpFrac(_, _, _, _)
CmpFrac(a, b, c, d) ==
    LET q1 == a \div b
        q2 == c \div d
        r1 == a - q1 * b
        r2 == c - q2 * d
    IN  IF q1 # q2 THEN (IF q1 < q2 THEN -1 ELSE 1)
        ELSE IF r1 = 0 \/ r2 = 0
             THEN (IF r1 = r2 THEN 0 ELSE IF r1 = 0 THEN -1 ELSE 1)
        ELSE CmpFrac(d, r2, b, r1)

\* IEEE comparisons: false as soon as an operand is not a number.
Leq(a, b) ==
    IF Bad(a) \/ Bad(b) THEN FALSE
    ELSE IF a.k = "inf" THEN a.n = -1 \/ (b.k = "inf" /\ b.n = 1)
    ELSE IF b.k = "inf" THEN b.n = 1
    ELSE IF a.p # b.p /\ a.n # 0 /\ b.n # 0 THEN FALSE
    ELSE CmpFrac(a.n, a.d, b.n, b.d) <= 0

Eq(a, b) == ~Bad(a) /\ ~Bad(b) /\ a = b
Lt(a, b) == Leq(a, b) /\ a # b

\* Newton's iteration for the floor of the square root of n > 0.
RECURSIVE Newton(_, _)
Newton(n, x) ==
    LET y == (x + n \div x) \div 2
    IN  IF y >= x THEN x ELSE Newton(n, y)

\* The integer square root of a perfect square, -1 otherwise.
ISqrt(n) ==
    LET r == IF n <= 0 THEN 0 ELSE Newton(n, n)
    IN  IF n >= 0 /\ r * r = n THEN r ELSE -1

\* np.sqrt of a real: exact on squares of rationals, NaN below zero.
Sqrt(a) ==
    IF Bad(a) THEN Poison(a, a)
    ELSE IF a.k = "inf" THEN (IF a.n = 1 THEN a ELSE NaN)
    ELSE IF a.n < 0 THEN NaN
    ELSE IF a.p # 0 \/ ISqrt(a.n) < 0 \/ ISqrt(a.d) < 0 THEN Off
    ELSE Fin(ISqrt(a.n), ISqrt(a.d))

\* Twelfths of a half turn: x = (m/6) * pi, reduced to 0..11; -1 when x is
\* not a multiple of pi/6.
Twelfth(x) == IF (6 * x.n) % x.d = 0 THEN ((6 * x.n) \div x.d) % 12 ELSE -1

\* np.cos of an angle in radians.  cos(pi/2) is taken as 0; the double
\* nearest to pi/2 has cosine 6.1e-17.
Cos(x) ==
    IF Bad(x) THEN Poison(x, x)
    ELSE IF x.k = "inf" THEN NaN
    ELSE IF x.n = 0 THEN One
    ELSE IF x.p # 1 THEN Off
    ELSE LET m == Twelfth(x)
         IN  IF m = 0 THEN One
             ELSE IF m \in {2, 10} THEN Fin(1, 2)
             ELSE IF m \in {3, 9} THEN Zero
             ELSE IF m \in {4, 8} THEN Fin(-1, 2)
             ELSE IF m = 6 THEN Fin(-1, 1)
             ELSE Off

\* np.sin(x) ** 2 of an angle in radians.
SinSq(x) ==
    IF Bad(x) THEN Poison(x, x)
    ELSE IF x.k = "inf" THEN NaN
    ELSE IF x.n = 0 THEN Zero
    ELSE IF x.p # 1 THEN Off
    ELSE LET m == Twelfth(x)
         IN  IF m \in {0, 6} THEN Zero
             ELSE IF m \in {1, 5, 7, 11} THEN Fin(1, 4)
             ELSE IF m \in {2, 4, 8, 10} THEN Fin(3, 4)
             ELSE IF m \in {3, 9} THEN One
             ELSE Off

\* np.exp on the arguments sigma0_bare forms from the grid's f_rms
\* (-k_rms = -2*pi*f_rms and -0.65 * k_rms ** 1.8), each value given by a
\* nearby fraction of small denominator; the double is in the comment.
ExpTable ==
    { <<FinP(11, 50, 1), Fin(2, 1)>>,      \* exp( 0.69115) = 1.99601
      <<FinP(-11, 50, 1), Fin(1, 2)>>,     \* exp(-0.69115) = 0.50100
      <<FinP(-22, 25, 1), Fin(1, 16)>>,    \* exp(-2.76460) = 0.06300
      <<Fin(-13, 40), Fin(5, 7)>>,         \* exp(-0.32500) = 0.72253
      <<Fin(-65, 16), Fin(1, 56)>> }       \* exp(-4.06250) = 0.01721

Exp(x) ==
    IF Bad(x) THEN Poison(x, x)
    ELSE IF x.k = "inf" THEN (IF x.n = 1 THEN x ELSE Zero)
    ELSE IF x.n = 0 THEN One
    ELSE IF \E t \in ExpTable : t[1] = x
         THEN (CHOOSE t \in ExpTable : t[1] = x)[2]
    ELSE Off

\* x to two decimal places (round half up).
Round2(x) ==
    LET q == x.n \div x.d
        r == x.n - q * x.d
    IN  Add(Int2R(q), Fin((200 * r + x.d) \div (2 * x.d), 100))

RECURSIVE IPow(_, _)
IPow(b, e) == IF e = 0 THEN 1 ELSE b * IPow(b, e - 1)

\* Non-integer powers, k_rms ** 1.8 on the grid, given like ExpTable.
PowTable ==
    { <<FinP(11, 50, 1), Fin(9, 5), Fin(1, 2)>>,    \* 0.69115 ** 1.8 = 0.51432
      <<FinP(22, 25, 1), Fin(9, 5), Fin(25, 4)>> }  \* 2.76460 ** 1.8 = 6.23647

\* numpy's b ** e on doubles: pow(1, y) = 1 and pow(x, 0) = 1 even for a NaN,
\* pow(x, +inf) is 0, 1 or +inf as |x| is below, at or above 1, a negative
\* base to a non-integer power is NaN.  An integer power is computed exactly
\* and given to two decimal places.
Pow(b, e) ==
    IF b.k \in {"off", "unset"} \/ e.k \in {"off", "unset"} THEN Off
    ELSE IF b = One \/ IsZero(e) THEN One
    ELSE IF Bad(b) \/ Bad(e) THEN NaN
    ELSE IF b.k = "inf" THEN (IF Sign(e) > 0 THEN Inf(1) ELSE Zero)
    ELSE IF e.k = "inf"
         THEN LET c == CmpFrac(Abs(b.n), b.d, 1, 1)
                  big == IF e.n = 1 THEN 1 ELSE -1
              IN  IF b.p # 0 THEN Off
                  ELSE IF c = 0 THEN One
                  ELSE IF c = big THEN Inf(1) ELSE Zero
    ELSE IF b.n = 0 THEN (IF Sign(e) > 0 THEN Zero ELSE Inf(1))
    ELSE IF e.d = 1 /\ e.p = 0
         THEN IF b.p # 0 \/ e.n < 0 \/ e.n > 12 \/ Abs(b.n) > 5 \/ b.d > 5
              THEN Off
              ELSE Round2(Fin(IPow(b.n, e.n), IPow(b.d, e.n)))
    ELSE IF b.n < 0 THEN NaN
    ELSE IF \E t \in PowTable : t[1] = b /\ t[2] = e
         THEN (CHOOSE t \in PowTable : t[1] = b /\ t[2] = e)[3]
    ELSE Off

(***************************************************************************)
(* Complex numbers: [re, im] of reals.                                     *)
(***************************************************************************)
Cx(re, im) == [re |-> re, im |-> im]
CxOfReal(a) == Cx(a, Zero)
CIsZero(z) == IsZero(z.re) /\ IsZero(z.im)
CAdd(z, w) == Cx(Add(z.re, w.re), Add(z.im, w.im))
CSub(z, w) == Cx(Sub(z.re, w.re), Sub(z.im, w.im))
CMul(z, w) == Cx(Sub(Mul(z.re, w.re), Mul(z.im, w.im)),
                 Add(Mul(z.re, w.im), Mul(z.im, w.re)))

\* Complex division; by 0+0j numpy divides both parts by 0.0.
CDiv(z, w) ==
    IF CIsZero(w) THEN Cx(Div(z.re, Zero), Div(z.im, Zero))
    ELSE LET m == Add(Mul(w.re, w.re), Mul(w.im, w.im))
         IN  Cx(Div(Add(Mul(z.re, w.re), Mul(z.im, w.im)), m),
                Div(Sub(Mul(z.im, w.re), Mul(z.re, w.im)), m))

\* np.sqrt of a complex number: the principal root.
CSqrt(z) ==
    LET r == Sqrt(Add(Mul(z.re, z.re), Mul(z.im, z.im)))
        x == Sqrt(Div(Add(r, z.re), Int2R(2)))
        y == Sqrt(Div(Sub(r, z.re), Int2R(2)))
    IN  Cx(x, IF Sign(z.im) < 0 THEN Neg(y) ELSE y)

\* np.abs(z) ** 2: hypot is inf as soon as one part is, else NaN if one is.
AbsSq(z) ==
    IF z.re.k \in {"off", "unset"} \/ z.im.k \in {"off", "unset"} THEN Off
    ELSE IF z.re.k = "inf" \/ z.im.k = "inf" THEN Inf(1)
    ELSE Add(Mul(z.re, z.re), Mul(z.im, z.im))

(***************************************************************************)
(* The two reflectivities.                                                 *)
(***************************************************************************)
DegToRad(theta) == Mul(Div(theta, Int2R(180)), Pi)

\* gammah with numerator and denominator exchanged.
gammah_Inverted(eps, theta) ==
    LET theta_rad == DegToRad(theta)
        costheta == CxOfReal(Cos(theta_rad))
        neliojuuri == CSqrt(CSub(eps, CxOfReal(SinSq(theta_rad))))
    IN  AbsSq(CDiv(CAdd(costheta, neliojuuri), CSub(costheta, neliojuuri)))

gammah(eps, theta) ==
    LET theta_rad == DegToRad(theta)
        costheta == CxOfReal(Cos(theta_rad))
        neliojuuri == CSqrt(CSub(eps, CxOfReal(SinSq(theta_rad))))
    IN  AbsSq(CDiv(CSub(costheta, neliojuuri), CAdd(costheta, neliojuuri)))

\* gammav with the root taken of eps alone, the sin^2 term dropped.
gammav_NoSnell(eps, theta) ==
    LET theta_rad == DegToRad(theta)
        costheta == CxOfReal(Cos(theta_rad))
        neliojuuri == CSqrt(eps)
    IN  AbsSq(CDiv(CSub(CMul(eps, costheta), neliojuuri),
                   CAdd(CMul(eps, costheta), neliojuuri)))

\* gammav with eps missing from the cosine term of the denominator.
gammav_DenomNoEps(eps, theta) ==
    LET theta_rad == DegToRad(theta)
        costheta == CxOfReal(Cos(theta_rad))
        neliojuuri == CSqrt(CSub(eps, CxOfReal(SinSq(theta_rad))))
    IN  AbsSq(CDiv(CSub(CMul(eps, costheta), neliojuuri),
                   CAdd(costheta, neliojuuri)))

gammav(eps, theta) ==
    LET theta_rad == DegToRad(theta)
        costheta == CxOfReal(Cos(theta_rad))
        neliojuuri == CSqrt(CSub(eps, CxOfReal(SinSq(theta_rad))))
    IN  AbsSq(CDiv(CSub(CMul(eps, costheta), neliojuuri),
                   CAdd(CMul(eps, costheta), neliojuuri)))

(***************************************************************************)
(* sigma0_bare, one operator per right-hand side.                          *)
(***************************************************************************)
KRms(f_rms) == Mul(Mul(Int2R(2), Pi), f_rms)

EpsEff(eps_low, eps_top) == CDiv(eps_low, eps_top)

\* g without the complement: 0.7 * exp(-0.65 * k_rms^1.8).
GFactor_NoComplement(k_rms) ==
    Mul(Fin(7, 10), Exp(Mul(Fin(-13, 20), Pow(k_rms, Fin(9, 5)))))

GFactor(k_rms) ==
    Mul(Fin(7, 10),
        Sub(One, Exp(Mul(Fin(-13, 20), Pow(k_rms, Fin(9, 5))))))

\* root_p with the exponent read as (1/3) * gam0.
RootP_Precedence(theta, gam0, k_rms) ==
    Sub(One,
        Mul(Pow(Div(Mul(Int2R(2), theta), Pi),
                Mul(Div(One, Int2R(3)), gam0)),
            Exp(Neg(k_rms))))

RootP(theta, gam0, k_rms) ==
    Sub(One,
        Mul(Pow(Div(Mul(Int2R(2), theta), Pi),
                Div(One, Mul(Int2R(3), gam0))),
            Exp(Neg(k_rms))))

\* q with gam0 in place of its square root.
QFactor_NoSqrt(gam0, k_rms) ==
    Mul(Mul(Fin(23, 100), gam0), Sub(One, Exp(Neg(k_rms))))

QFactor(gam0, k_rms) ==
    Mul(Mul(Fin(23, 100), Sqrt(gam0)), Sub(One, Exp(Neg(k_rms))))

\* vv with the difference of the reflectivities in place of their sum.
VV_Difference(g, ct, gamv, gamh, root_p) ==
    Div(Mul(Mul(g, Mul(ct, Mul(ct, ct))), Sub(gamv, gamh)), root_p)

VV(g, ct, gamv, gamh, root_p) ==
    Div(Mul(Mul(g, Mul(ct, Mul(ct, ct))), Add(gamv, gamh)), root_p)

VH(q, vv) == Mul(q, vv)

\* hh with root_p to the first power.
HH_Linear(root_p, vv) == Mul(root_p, vv)

HH(root_p, vv) == Mul(Mul(root_p, root_p), vv)

(***************************************************************************)
(* The grid of arguments.                                                  *)
(***************************************************************************)
MaxCalls == 2
NFreq == 2

Theta == {Int2R(-60), Int2R(0), Int2R(60), Int2R(90), Int2R(120), Int2R(180)}
FRms == {Fin(-11, 100), Zero, Fin(11, 100), Fin(11, 25)}
Freq == 1..NFreq
EpsLossy == Cx(Fin(1, 2), Fin(-3, 8))
EpsLow == {CxOfReal(Zero), CxOfReal(One), CxOfReal(Int2R(4)),
           CxOfReal(Fin(49, 25)), EpsLossy}
EpsTop == {CxOfReal(One), CxOfReal(Int2R(4))}

\* The angles at which gammah and gammav are exact for a permittivity.
\* At 90 degrees with eps = 1 both the cosine and the root vanish here, where
\* the doubles give cos = 6.1e-17 over a root of 0.0: the point is left out.
OnGridRefl(e, a) ==
    /\ gammah(e, a).k # "off" /\ gammav(e, a).k # "off"
    /\ ~(e = CxOfReal(One) /\ a = Int2R(90))

\* The angles at which every statement of sigma0_bare is exact for a pair of
\* media: eps_eff - sin(theta)**2 and gam0 are squares, and the exponent
\* 1/(3*gam0) is an integer unless 2*theta/pi is 0 or 1.
GridAngles(el, et) ==
    IF el = et THEN Theta \ {Int2R(90)}
    ELSE IF el = CxOfReal(Fin(49, 25)) /\ et = CxOfReal(One)
         THEN Theta \ {Int2R(90)}
    ELSE IF {el, et} = {CxOfReal(One), CxOfReal(Int2R(4))}
         THEN {Int2R(0), Int2R(180)}
    ELSE IF el = CxOfReal(Zero) \/ (el = EpsLossy /\ et = CxOfReal(One))
         THEN {Int2R(0), Int2R(90)}
    ELSE IF el = CxOfReal(Fin(49, 25)) THEN {Int2R(0)}
    ELSE {}

VARIABLES
    caller,     \* "refl": gammah and gammav are called directly; "sigma0"
    eps, angle, \* arguments of the direct calls
    refl_h,     \* gammah(eps, angle) once called
    refl_v,     \* gammav(eps, angle) once called
    arg_theta,  \* the theta the caller of sigma0_bare passed
    theta, eps_low, f_rms, f, eps_top,      \* parameters of sigma0_bare
    k_rms, eps_eff, gam0, gamh, gamv, ct, g, root_p, q, sigma0,  \* locals
    pc,         \* the statement sigma0_bare is at
    ncalls,     \* calls of sigma0_bare begun
    prev        \* what the previous call of sigma0_bare returned

vars == <<caller, eps, angle, refl_h, refl_v, arg_theta, theta, eps_low,
          f_rms, f, eps_top, k_rms, eps_eff, gam0, gamh, gamv, ct, g,
          root_p, q, sigma0, pc, ncalls, prev>>

params == <<caller, eps, angle, arg_theta, eps_low, f_rms, f, eps_top,
            ncalls, prev>>
direct == <<refl_h, refl_v>>

UnsetCx == Cx(Unset, Unset)
NoDict == <<>>

\* The statements of sigma0_bare in program order.
\* The rebinding of theta to radians moved ahead of the reflectivities.
Order_ConvertFirst ==
    <<"L96", "L98", "L103", "L100", "L101", "L102", "L106", "L109",
      "L110", "L115", "L117", "L119", "L123", "L124", "L126">>

Order == <<"L96", "L98", "L100", "L101", "L102", "L103", "L106", "L109",
           "L110", "L115", "L117", "L119", "L123", "L124", "L126">>

Index(l) == CHOOSE i \in 1..Len(Order) : Order[i] = l
NextPc(l) == IF Index(l) = Len(Order) THEN "returned" ELSE Order[Index(l) + 1]
Before(l, m) == Index(l) < Index(m)
\* Statement l has been executed in the current call.
Done(l) == pc = "returned" \/ (pc \in {Order[i] : i \in 1..Len(Order)} /\ Before(l, pc))

LocalsUnset ==
    /\ k_rms = Unset /\ eps_eff = UnsetCx /\ gam0 = Unset /\ gamh = Unset
    /\ gamv = Unset /\ ct = Unset /\ g = Unset /\ root_p = Unset
    /\ q = Unset /\ sigma0 = NoDict

Init ==
    /\ caller \in {"refl", "sigma0"}
    /\ refl_h = Unset /\ refl_v = Unset
    /\ LocalsUnset
    /\ ncalls = IF caller = "sigma0" THEN 1 ELSE 0
    /\ prev = NoDict
    /\ IF caller = "refl"
       THEN /\ eps \in EpsLow
            /\ angle \in Theta
            /\ OnGridRefl(eps, angle)
            /\ arg_theta = Zero /\ theta = Zero /\ eps_low = CxOfReal(One)
            /\ f_rms = Zero /\ f = 1 /\ eps_top = CxOfReal(One)
            /\ pc = "idle"
       ELSE /\ eps = CxOfReal(One) /\ angle = Zero
            /\ eps_low \in EpsLow
            /\ eps_top \in EpsTop
            /\ arg_theta \in GridAngles(eps_low, eps_top)
            /\ theta = arg_theta
            /\ f_rms \in FRms
            /\ f \in Freq
            /\ pc = Order[1]

CallGammah ==
    /\ caller = "refl" /\ refl_h = Unset
    /\ refl_h' = gammah(eps, angle)
    /\ UNCHANGED <<params, refl_v, theta, k_rms, eps_eff, gam0, gamh, gamv,
                   ct, g, root_p, q, sigma0, pc>>

CallGammav ==
    /\ caller = "refl" /\ refl_v = Unset
    /\ refl_v' = gammav(eps, angle)
    /\ UNCHANGED <<params, refl_h, theta, k_rms, eps_eff, gam0, gamh, gamv,
                   ct, g, root_p, q, sigma0, pc>>

At(l) == caller = "sigma0" /\ pc = l /\ pc' = NextPc(l)
          /\ UNCHANGED <<params, direct>>

\* Line 96 with the roughness scaled by the frequency.
L96_UsesF ==
        /\ At("L96")
        /\ k_rms' = Mul(KRms(f_rms), Int2R(f))
        /\ UNCHANGED <<theta, eps_eff, gam0, gamh, gamv, ct, g, root_p, q, sigma0>>

L96 ==  /\ At("L96")
        /\ k_rms' = KRms(f_rms)
        /\ UNCHANGED <<theta, eps_eff, gam0, gamh, gamv, ct, g, root_p, q, sigma0>>

L98 ==  /\ At("L98")
        /\ eps_eff' = EpsEff(eps_low, eps_top)
        /\ UNCHANGED <<theta, k_rms, gam0, gamh, gamv, ct, g, root_p, q, sigma0>>

L100 == /\ At("L100")
        /\ gam0' = gammah(eps_eff, Zero)
        /\ UNCHANGED <<theta, k_rms, eps_eff, gamh, gamv, ct, g, root_p, q, sigma0>>

L101 == /\ At("L101")
        /\ gamh' = gammah(eps_eff, theta)
        /\ UNCHANGED <<theta, k_rms, eps_eff, gam0, gamv, ct, g, root_p, q, sigma0>>

L102 == /\ At("L102")
        /\ gamv' = gammav(eps_eff, theta)
        /\ UNCHANGED <<theta, k_rms, eps_eff, gam0, gamh, ct, g, root_p, q, sigma0>>

L103 == /\ At("L103")
        /\ theta' = Mul(Div(theta, Int2R(180)), Pi)
        /\ UNCHANGED <<k_rms, eps_eff, gam0, gamh, gamv, ct, g, root_p, q, sigma0>>

L106 == /\ At("L106")
        /\ ct' = Cos(theta)
        /\ UNCHANGED <<theta, k_rms, eps_eff, gam0, gamh, gamv, g, root_p, q, sigma0>>

L109 == /\ At("L109")
        /\ g' = GFactor(k_rms)
        /\ UNCHANGED <<theta, k_rms, eps_eff, gam0, gamh, gamv, ct, root_p, q, sigma0>>

L110 == /\ At("L110")
        /\ root_p' = RootP(theta, gam0, k_rms)
        /\ UNCHANGED <<theta, k_rms, eps_eff, gam0, gamh, gamv, ct, g, q, sigma0>>

L115 == /\ At("L115")
        /\ q' = QFactor(gam0, k_rms)
        /\ UNCHANGED <<theta, k_rms, eps_eff, gam0, gamh, gamv, ct, g, root_p, sigma0>>

L117 == /\ At("L117")
        /\ sigma0' = NoDict
        /\ UNCHANGED <<theta, k_rms, eps_eff, gam0, gamh, gamv, ct, g, root_p, q>>

L119 == /\ At("L119")
        /\ sigma0' = sigma0 @@ ("vv" :> VV(g, ct, gamv, gamh, root_p))
        /\ UNCHANGED <<theta, k_rms, eps_eff, gam0, gamh, gamv, ct, g, root_p, q>>

L123 == /\ At("L123")
        /\ sigma0' = sigma0 @@ ("vh" :> VH(q, sigma0["vv"]))
        /\ UNCHANGED <<theta, k_rms, eps_eff, gam0, gamh, gamv, ct, g, root_p, q>>

L124 == /\ At("L124")
        /\ sigma0' = sigma0 @@ ("hh" :> HH(root_p, sigma0["vv"]))
        /\ UNCHANGED <<theta, k_rms, eps_eff, gam0, gamh, gamv, ct, g, root_p, q>>

\* return sigma0
L126 == /\ At("L126")
        /\ UNCHANGED <<theta, k_rms, eps_eff, gam0, gamh, gamv, ct, g, root_p, q, sigma0>>

\* The caller calls sigma0_bare again with the same arguments but another
\* frequency, keeping what the first call returned.
CallAgain ==
    /\ caller = "sigma0" /\ pc = "returned" /\ ncalls < MaxCalls
    /\ \E f2 \in Freq \ {f} : f' = f2
    /\ prev' = sigma0
    /\ ncalls' = ncalls + 1
    /\ theta' = arg_theta
    /\ k_rms' = Unset /\ eps_eff' = UnsetCx /\ gam0' = Unset /\ gamh' = Unset
    /\ gamv' = Unset /\ ct' = Unset /\ g' = Unset /\ root_p' = Unset
    /\ q' = Unset /\ sigma0' = NoDict
    /\ pc' = Order[1]
    /\ UNCHANGED <<caller, eps, angle, arg_theta, eps_low, f_rms, eps_top, direct>>

Next ==
    \/ CallGammah \/ CallGammav
    \/ L96 \/ L98 \/ L100 \/ L101 \/ L102 \/ L103 \/ L106 \/ L109 \/ L110
    \/ L115 \/ L117 \/ L119 \/ L123 \/ L124 \/ L126
    \/ CallAgain

Spec == Init /\ [][Next]_vars

(***************************************************************************)
(* Properties.                                                             *)
(***************************************************************************)
Keys == {"vv", "vh", "hh"}
Returned == caller = "sigma0" /\ pc = "returned"
InSigma0(l) == caller = "sigma0" /\ Done(l)
NonNegReal(x) == IsFin(x) /\ x.n >= 0
InUnit(x) == Leq(Zero, x) /\ Leq(x, One)
\* The conventional domain: 0 <= theta < 90 degrees, f_rms >= 0, and a lower
\* medium whose permittivity is not 0.
Physical ==
    /\ Leq(Zero, arg_theta) /\ Lt(arg_theta, Int2R(90))
    /\ Leq(Zero, f_rms)
    /\ ~CIsZero(eps_low)

\* Every value of the run is on the grid: no operation left it.
NoOff ==
    /\ \A x \in {refl_h, refl_v, k_rms, gam0, gamh, gamv, ct, g, root_p, q,
                 theta, eps_eff.re, eps_eff.im} : x.k # "off"
    /\ \A key \in DOMAIN sigma0 : sigma0[key].k # "off"

\* q as the formula of the claim gives it, from eps_low, eps_top and f_rms
\* alone: 0.23 * sqrt(gamma0) * (1 - exp(-2*pi*f_rms)), gamma0 at 0 degrees.
C1_Q ==
    Mul(Mul(Fin(23, 100), Sqrt(gammah(CDiv(eps_low, eps_top), Int2R(0)))),
        Sub(One, Exp(Neg(Mul(Mul(Int2R(2), Pi), f_rms)))))

\* C1: once vh is assigned, vh is q * vv with q = 0.23 * sqrt(gamma0) *
\* (1 - exp(-k_rms)) computed from eps_low/eps_top at 0 degrees and from
\* f_rms, not from the caller's angle; on the conventional domain both sides
\* are numbers and compare equal.
C1_CrossPol ==
    InSigma0("L123") =>
        /\ q = C1_Q
        /\ sigma0["vh"] = Mul(C1_Q, sigma0["vv"])
        /\ Physical => Eq(sigma0["vh"], Mul(C1_Q, sigma0["vv"]))

C1_Witness ==
    /\ Returned /\ Physical /\ arg_theta = Int2R(60)
    /\ IsFin(sigma0["vh"]) /\ sigma0["vh"].n > 0
    /\ sigma0["vh"] # sigma0["vv"]

\* root_p as the claim gives it, from the caller's angle in degrees.
C2_RootP ==
    Sub(One,
        Mul(Pow(Div(Mul(Int2R(2), Mul(Div(arg_theta, Int2R(180)), Pi)), Pi),
                Div(One, Mul(Int2R(3), gam0))),
            Exp(Neg(k_rms))))

\* C2 as stated: for every call that returns, hh = root_p^2 * vv and
\* hh <= vv whenever root_p <= 1.
C2_Original ==
    Returned =>
        /\ root_p = C2_RootP
        /\ sigma0["hh"] = Mul(Mul(root_p, root_p), sigma0["vv"])
        /\ Leq(root_p, One) => Leq(sigma0["hh"], sigma0["vv"])

\* C2 amended: for every call that returns, hh = root_p^2 * vv, and
\* hh <= vv whenever -1 <= root_p <= 1 and vv is finite and nonnegative.
C2_HHBelowVV ==
    Returned =>
        /\ root_p = C2_RootP
        /\ sigma0["hh"] = Mul(Mul(root_p, root_p), sigma0["vv"])
        /\ (/\ Leq(Neg(One), root_p) /\ Leq(root_p, One)
            /\ NonNegReal(sigma0["vv"]))
           => Leq(sigma0["hh"], sigma0["vv"])

C2_Witness ==
    /\ Returned
    /\ Lt(Zero, root_p) /\ Lt(root_p, One)
    /\ Lt(Zero, sigma0["vv"])
    /\ Lt(sigma0["hh"], sigma0["vv"])

\* C3 as stated: for a permittivity of nonnegative real part and any angle,
\* both reflectivities lie in [0, 1].
C3_Original ==
    (caller = "refl" /\ Leq(Zero, eps.re)) =>
        /\ refl_h # Unset => InUnit(refl_h)
        /\ refl_v # Unset => InUnit(refl_v)

\* C3 amended: for a nonzero permittivity of nonnegative real part and any
\* angle strictly between -90 and 90 degrees, both reflectivities lie in
\* [0, 1].
C3_Range ==
    (/\ caller = "refl" /\ Leq(Zero, eps.re) /\ ~CIsZero(eps)
     /\ Lt(Int2R(-90), angle) /\ Lt(angle, Int2R(90))) =>
        /\ refl_h # Unset => InUnit(refl_h)
        /\ refl_v # Unset => InUnit(refl_v)

C3_Witness ==
    /\ caller = "refl" /\ angle = Int2R(60) /\ eps = CxOfReal(Fin(49, 25))
    /\ Lt(Zero, refl_h) /\ Lt(refl_h, One)
    /\ Lt(Zero, refl_v) /\ Lt(refl_v, One)

C5_Original ==
    (caller = "refl" /\ angle = Int2R(0) /\ refl_h # Unset /\ refl_v # Unset)
        => Eq(refl_h, refl_v)

\* C5 amended: for any eps other than 0, gammah(eps, 0) == gammav(eps, 0);
\* at eps = 0 gammah is 1 and gammav is 0/0, not a number.
C5_NormalIncidence ==
    (caller = "refl" /\ angle = Int2R(0) /\ refl_h # Unset /\ refl_v # Unset)
        => IF CIsZero(eps) THEN refl_h = One /\ refl_v = NaN
           ELSE Eq(refl_h, refl_v)

C5_Witness ==
    /\ caller = "refl" /\ angle = Int2R(0) /\ eps = EpsLossy
    /\ refl_h = Fin(1, 25) /\ refl_v = Fin(1, 25)

\* C6: a second call that agrees with the first on theta, eps_low, f_rms and
\* eps_top and differs in the frequency returns the same vv, vh and hh, not
\* a number in the one exactly where in the other.
C6_FrequencyUnused ==
    (Returned /\ ncalls >= 2) => sigma0 = prev

C6_Witness ==
    /\ Returned /\ ncalls = 2 /\ sigma0 = prev
    /\ IsFin(sigma0["vv"]) /\ sigma0["vv"].n > 0

\* C7 as stated: every returned mapping has exactly the keys vv, vh, hh and
\* each value is a nonnegative real.
C7_Original ==
    Returned =>
        /\ DOMAIN sigma0 = Keys
        /\ \A key \in Keys : NonNegReal(sigma0[key])

\* C7 amended: every returned mapping has exactly the keys vv, vh, hh, and
\* each value is a nonnegative real when 0 <= theta < 90 degrees, f_rms >= 0
\* and eps_low is not 0.
C7_ResultShape ==
    Returned =>
        /\ DOMAIN sigma0 = Keys
        /\ Physical => \A key \in Keys : NonNegReal(sigma0[key])

C7_Witness ==
    /\ Returned /\ Physical /\ DOMAIN sigma0 = Keys
    /\ \A key \in Keys : IsFin(sigma0[key]) /\ sigma0[key].n > 0

\* C8 as stated: when gamma0 is 0 the division in the exponent of root_p is
\* a fault that reaches the caller, and no ordinary finite result is returned.
C8_Original ==
    (Returned /\ IsZero(gam0)) => \E key \in Keys : ~IsFin(sigma0[key])

\* C8 amended: when gamma0 is 0 the exponent 1/(3*gamma0) is +infinity, not a
\* raised fault, and nothing special-cases it: root_p is 1 for |theta| < 90
\* degrees, where with f_rms >= 0 an ordinary finite result is returned, and
\* -infinity for 90 < theta <= 180 degrees, where hh is not a number.
C8_ZeroContrast ==
    (InSigma0("L110") /\ IsZero(gam0)) =>
        /\ Lt(Int2R(-90), arg_theta) /\ Lt(arg_theta, Int2R(90)) =>
              /\ root_p = One
              /\ (Returned /\ Leq(Zero, f_rms)) =>
                    \A key \in Keys : IsFin(sigma0[key])
        /\ Lt(Int2R(90), arg_theta) /\ Leq(arg_theta, Int2R(180)) =>
              /\ root_p = Inf(-1)
              /\ Returned => sigma0["hh"] = NaN

C8_Witness ==
    /\ Returned /\ IsZero(gam0) /\ arg_theta = Int2R(60)
    /\ eps_low = CxOfReal(Int2R(4)) /\ f_rms = Fin(11, 100)
    /\ root_p = One
    /\ \A key \in Keys : sigma0[key] = Zero

\* C9: gam0, gamh and gamv are computed while the local angle is still the
\* caller's degrees (gam0 at 0), each reflectivity converting it once; the
\* rebinding to radians follows, and ct and root_p use the radians.
C9_ConversionOrder ==
    caller = "sigma0" =>
        /\ Done("L100") => gam0 = gammah(eps_eff, Int2R(0))
        /\ Done("L101") => gamh = gammah(eps_eff, arg_theta)
        /\ Done("L102") => gamv = gammav(eps_eff, arg_theta)
        /\ theta = IF Done("L103") THEN Mul(Div(arg_theta, Int2R(180)), Pi)
                   ELSE arg_theta
        /\ Done("L106") => ct = Cos(Mul(Div(arg_theta, Int2R(180)), Pi))
        /\ Done("L110") => root_p = C2_RootP

C9_Witness ==
    /\ InSigma0("L110") /\ arg_theta = Int2R(60)
    /\ theta = FinP(1, 3, 1) /\ ct = Fin(1, 2)
    /\ gamh = Fin(9, 64) /\ gamv = Fin(9, 2704)

\* C10 as stated: for f_rms = 0, 0 <= theta < 90 degrees and gamma0 > 0 the
\* call returns vv = vh = hh = 0; at 90 degrees root_p is 0 and vv is 0/0.
C10_Original ==
    (Returned /\ IsZero(f_rms)) =>
        /\ (/\ Leq(Zero, arg_theta) /\ Lt(arg_theta, Int2R(90))
            /\ Lt(Zero, gam0))
           => \A key \in Keys : Eq(sigma0[key], Zero)
        /\ arg_theta = Int2R(90) => root_p = Zero /\ sigma0["vv"] = NaN

\* C10 amended: the same, for eps_low other than 0 (at eps_low = 0 and
\* theta = 0 gammav is 0/0 and vv, vh and hh are not numbers).
C10_Smooth ==
    (Returned /\ IsZero(f_rms)) =>
        /\ (/\ Leq(Zero, arg_theta) /\ Lt(arg_theta, Int2R(90))
            /\ Lt(Zero, gam0) /\ ~CIsZero(eps_low))
           => /\ g = Zero /\ q = Zero /\ root_p # Zero
              /\ \A key \in Keys : Eq(sigma0[key], Zero)
        /\ arg_theta = Int2R(90) => root_p = Zero /\ sigma0["vv"] = NaN

C10_Witness ==
    /\ Returned /\ IsZero(f_rms) /\ arg_theta = Int2R(60)
    /\ Lt(Zero, gam0) /\ Lt(Zero, root_p) /\ Lt(root_p, One)
    /\ \A key \in Keys : sigma0[key] = Zero
====
